---- MODULE Spec2Model ----
(***************************************************************************)
(* A model of src/app.py, the Streamlit document summarizer: the three     *)
(* source loaders, the chunk / map-reduce summarization pipeline, and the  *)
(* session state the button handlers read and write.                       *)
(*                                                                         *)
(* Python values are modelled as follows.                                  *)
(*  - An optional value (None or v) is a sequence of length at most one:   *)
(*    None is << >> and v is << v >>.                                      *)
(*  - A URL is the sequence of its characters.                             *)
(*  - A text handed to the splitter is the sequence of the lengths of its  *)
(*    newline-separated lines; a negative length -k is a line of k blanks, *)
(*    0 is an empty line, k > 0 a line of k characters that neither starts *)
(*    nor ends with white space.                                           *)
(*  - A text returned by the completion service is a record that names     *)
(*    the texts it was computed from.                                      *)
(*                                                                         *)
(* Specifications.                                                         *)
(*  - SpecFn: each of the four functions on its own, on any input.         *)
(*  - SpecFnLive: SpecFn with summarize_documents kept running.            *)
(*  - Spec: the page, one script run per user action.                      *)
(*  - SpecStart: the first script run (the API key), then the page.        *)
(*  - SpecAnalytics: the results section on summaries given by their       *)
(*    characters.                                                          *)
(*  - SpecReading: the reading time of summaries given by their number of  *)
(*    words.                                                               *)
(***************************************************************************)
EXTENDS Integers, Sequences, FiniteSets, TLC

\* ------------------------------------------------------------------------
\* Bounds of the model
\* ------------------------------------------------------------------------

\* How many temporary files one session may create before the model stops
\* offering the PDF load button.
MaxTmpFiles == 2

\* The longest summary, in characters, the results section is given.
MaxSummaryLen == 4

\* The longest summary, in words, whose reading time is computed.
MaxWords == 1000

\* ------------------------------------------------------------------------
\* Optional values
\* ------------------------------------------------------------------------

None == << >>

Some(v) == << v >>

Min(a, b) == IF a < b THEN a ELSE b

\* ------------------------------------------------------------------------
\* Texts and documents
\* ------------------------------------------------------------------------

\* A text read from a source: its lines.
Raw(segs) == [kind |-> "raw", segs |-> segs, of |-> << >>]

\* The empty string.
EmptyText == Raw(<< >>)

\* langchain_core.documents.Document
Document(content, meta) == [page_content |-> content, metadata |-> meta]

SegLen(s) == IF s < 0 THEN 0 - s ELSE s

RECURSIVE SumLen(_)
SumLen(segs) == IF segs = << >> THEN 0 ELSE SegLen(Head(segs)) + SumLen(Tail(segs))

\* len(text): the characters of the lines and one newline between neighbours.
TextLen(t) == IF t.segs = << >> THEN 0 ELSE SumLen(t.segs) + (Len(t.segs) - 1)

\* ------------------------------------------------------------------------
\* CharacterTextSplitter(chunk_size=4000, chunk_overlap=200, separator="\n")
\* as summarize_documents configures it (the merge is the library's
\* TextSplitter._merge_splits, the join its _join_docs with strip).
\* ------------------------------------------------------------------------

\* A window size 500 characters above the one of line 945.
chunk_size_plus_500 == 4000 + 500

chunk_size == 4000

chunk_overlap == 200

separator_len == 1

\* re.split(separator, text) with the empty strings dropped.
RECURSIVE NonEmptySplits(_)
NonEmptySplits(segs) ==
    IF segs = << >> THEN << >>
    ELSE IF Head(segs) = 0 THEN NonEmptySplits(Tail(segs))
    ELSE << Head(segs) >> \o NonEmptySplits(Tail(segs))

RECURSIVE LStrip(_)
LStrip(segs) ==
    IF segs = << >> THEN << >>
    ELSE IF Head(segs) < 0 THEN LStrip(Tail(segs)) ELSE segs

RECURSIVE RStrip(_)
RStrip(segs) ==
    IF segs = << >> THEN << >>
    ELSE IF segs[Len(segs)] < 0 THEN RStrip(SubSeq(segs, 1, Len(segs) - 1)) ELSE segs

\* _join_docs: separator.join(docs).strip(); << >> stands for its None.
JoinDocs(cur) == RStrip(LStrip(cur))

SepIf(b) == IF b THEN separator_len ELSE 0

\* The inner while loop without its test against the overlap: lines are
\* dropped from the front only until the next line fits.
RECURSIVE PopWhileNextFits(_, _, _)
PopWhileNextFits(cur, total, len) ==
    IF total + len + SepIf(Len(cur) > 0) > chunk_size /\ total > 0
    THEN PopWhileNextFits(Tail(cur), total - (SegLen(Head(cur)) + SepIf(Len(cur) > 1)), len)
    ELSE [cur |-> cur, total |-> total]

\* The inner while loop of _merge_splits: drop lines from the front until what
\* is kept is no longer than the overlap and the next line fits.
RECURSIVE PopWhile(_, _, _)
PopWhile(cur, total, len) ==
    IF total > chunk_overlap
         \/ (total + len + SepIf(Len(cur) > 0) > chunk_size /\ total > 0)
    THEN PopWhile(Tail(cur), total - (SegLen(Head(cur)) + SepIf(Len(cur) > 1)), len)
    ELSE [cur |-> cur, total |-> total]

\* One pass of the for loop of _merge_splits over the line d: when d does not
\* fit, the lines collected so far become a window and lines are dropped
\* from the front; then d is collected.
MergeStep(st, d) ==
    LET len == SegLen(d)
        over == st.total + len + SepIf(Len(st.cur) > 0) > chunk_size
        flush == over /\ Len(st.cur) > 0
        kept == IF flush THEN PopWhile(st.cur, st.total, len)
                ELSE [cur |-> st.cur, total |-> st.total]
        cur2 == Append(kept.cur, d)
    IN [docs |-> IF flush /\ JoinDocs(st.cur) # << >>
                 THEN Append(st.docs, JoinDocs(st.cur)) ELSE st.docs,
        cur |-> cur2,
        total |-> kept.total + len + SepIf(Len(cur2) > 1)]

\* The for loop of _merge_splits from the state st on.
RECURSIVE MergeLoop(_, _)
MergeLoop(splits, st) ==
    IF splits = << >> THEN st
    ELSE MergeLoop(Tail(splits), MergeStep(st, Head(splits)))

\* _merge_splits without its last step: the lines left over are not returned.
MergeSplitsLoopOnly(splits) ==
    MergeLoop(splits, [docs |-> << >>, cur |-> << >>, total |-> 0]).docs

\* _merge_splits: the loop, then the lines left over as the last window.
MergeSplits(splits) ==
    LET st == MergeLoop(splits, [docs |-> << >>, cur |-> << >>, total |-> 0])
    IN IF JoinDocs(st.cur) = << >> THEN st.docs ELSE Append(st.docs, JoinDocs(st.cur))

\* split_text: the windows of one text, each a sequence of lines.
split_text(t) == MergeSplits(NonEmptySplits(t.segs))

\* split_documents: one Document per window, carrying the metadata of the
\* document it was cut from, in order.
RECURSIVE split_documents(_)
split_documents(docs) ==
    IF docs = << >> THEN << >>
    ELSE LET d == Head(docs)
             w == split_text(d.page_content)
         IN [i \in 1..Len(w) |-> Document(Raw(w[i]), d.metadata)]
            \o split_documents(Tail(docs))

\* ------------------------------------------------------------------------
\* Python string operations on URLs (sequences of characters)
\* ------------------------------------------------------------------------

\* True iff sub occurs in s at position i.
OccursAt(s, sub, i) ==
    /\ i + Len(sub) - 1 <= Len(s)
    /\ SubSeq(s, i, i + Len(sub) - 1) = sub

\* sub in s
Contains(s, sub) == \E i \in 1..Len(s) : OccursAt(s, sub, i)

\* s.find(sub) + 1: the first position of sub in s; only used when sub in s.
IndexOf(s, sub) == CHOOSE i \in 1..Len(s) :
                      /\ OccursAt(s, sub, i)
                      /\ \A j \in 1..(i - 1) : ~OccursAt(s, sub, j)

\* s.split(sep)[0]: what precedes the first sep, the whole of s without one.
SplitFirst(s, sep) ==
    IF Contains(s, sep) THEN SubSeq(s, 1, IndexOf(s, sep) - 1) ELSE s

\* s.split(sep)[1], for sep in s: what lies between the first sep and the next.
SplitSecond(s, sep) ==
    SplitFirst(SubSeq(s, IndexOf(s, sep) + Len(sep), Len(s)), sep)

YOUTU_BE == << "y", "o", "u", "t", "u", ".", "b", "e", "/" >>

WATCH_V == << "w", "a", "t", "c", "h", "?", "v", "=" >>

QMARK == << "?" >>

AMP == << "&" >>

\* extract_video_id with the short form's query string left on the identifier.
extract_video_id_keep_query(youtube_url) ==
    IF Contains(youtube_url, YOUTU_BE)
    THEN Some(SplitSecond(youtube_url, YOUTU_BE))
    ELSE IF Contains(youtube_url, WATCH_V)
    THEN Some(SplitFirst(SplitSecond(youtube_url, WATCH_V), AMP))
    ELSE None

\* extract_video_id; << >> for None, << id >> for a returned identifier (the
\* identifier may itself be the empty string).
extract_video_id(youtube_url) ==
    IF Contains(youtube_url, YOUTU_BE)
    THEN Some(SplitFirst(SplitSecond(youtube_url, YOUTU_BE), QMARK))
    ELSE IF Contains(youtube_url, WATCH_V)
    THEN Some(SplitFirst(SplitSecond(youtube_url, WATCH_V), AMP))
    ELSE None

\* Python truthiness of an optional string or list: None and the empty one
\* are false.
Truthy(opt) == opt # None /\ opt[1] # << >>

\* ------------------------------------------------------------------------
\* Exceptions and the messages shown to the user
\* ------------------------------------------------------------------------

\* The exceptions an external collaborator may raise: str(e) is the text
\* named by tag, len characters long.
ErrMsgs == { [tag |-> "short", len |-> 40], [tag |-> "long", len |-> 250] }

\* str(e)[:n]
Trunc(e, n) == [tag |-> e.tag, len |-> Min(e.len, n)]

\* One st.error / st.markdown status box: its fixed text and the exception
\* texts interpolated into it, in order.
Msg(text, detail) == [text |-> text, detail |-> detail]

\* An exception raised at source line `site`.
Err(site, e) == [site |-> site, e |-> e]

\* A try statement of load_pdf_documents that starts below loader.load().
pdf_try_after_load == 855..857

\* The lines each try statement guards.
pdf_try == 849..857

url_try == 865..867

yt_try == 879..929

yt_primary_try == 889..904

yt_fallback_try == 909..912

\* A try statement that ends before the completion calls.
sum_try_setup_only == 938..948

sum_try == 938..962

\* ------------------------------------------------------------------------
\* The model catalog
\* ------------------------------------------------------------------------

\* The keys of GROQ_MODELS, in source order, and the "id" of each.
GROQ_MODELS ==
    [ Llama31_8B   |-> "llama-3.1-8b-instant",
      Llama33_70B  |-> "llama-3.3-70b-versatile",
      GptOss120B   |-> "openai/gpt-oss-120b",
      GptOss20B    |-> "openai/gpt-oss-20b",
      Llama4Maverick |-> "meta-llama/llama-4-maverick-17b-128e-instruct",
      Llama4Scout  |-> "meta-llama/llama-4-scout-17b-16e-instruct",
      KimiK2       |-> "moonshotai/kimi-k2-instruct-0905",
      Qwen3_32B    |-> "qwen/qwen3-32b" ]

ModelKeys == DOMAIN GROQ_MODELS

\* A client configured with one retry more than line 835 gives it.
ChatGroqThreeRetries(model) ==
    [model |-> model, temperature |-> 0, max_tokens |-> None, timeout |-> None,
     max_retries |-> 3]

\* ChatGroq(temperature=0, model=..., max_tokens=None, timeout=None, max_retries=2)
ChatGroq(model) ==
    [model |-> model, temperature |-> 0, max_tokens |-> None, timeout |-> None,
     max_retries |-> 2]

\* A get_llm that builds the client of the first catalog entry whatever the
\* selection is.
get_llm_first(selected) == ChatGroq(GROQ_MODELS["Llama31_8B"])

\* Lines 827-836
get_llm(selected) == ChatGroq(GROQ_MODELS[selected])

Methods == { "PDF Document", "Website Article", "YouTube Video" }

\* ------------------------------------------------------------------------
\* The inputs the model draws from
\* ------------------------------------------------------------------------

\* Source texts, by the lengths of their lines.
ShortText == Raw(<< 120 >>)

\* exactly 4000 characters, one line
EdgeText == Raw(<< 4000 >>)

\* 4001 characters without a newline
OneLineText == Raw(<< 4001 >>)

\* 4001 blanks
BlankText == Raw(<< 0 - 4001 >>)

\* 4302 characters in three lines
ThreeLineText == Raw(<< 2000, 2000, 300 >>)

\* 9000 characters in five lines, none longer than a window
Lines9000 == Raw(<< 3700, 150, 3600, 180, 1366 >>)

\* 9000 characters in two lines, both longer than a window
TwoLines9000 == Raw(<< 4400, 4599 >>)

\* 9000 characters without a newline
OneLine9000 == Raw(<< 9000 >>)

\* 9000 characters: two lines with a line of 2999 blanks between them
Sparse9000 == Raw(<< 3000, 0 - 2999, 2999 >>)

\* 10903 characters in six lines: the first two fill a window exactly, and
\* the second is exactly as long as the overlap
Overlap200Text == Raw(<< 3799, 200, 3700, 100, 99, 3000 >>)

\* 4652 characters in three lines, the second longer than a window
LongLineText == Raw(<< 100, 4500, 50 >>)

\* 6001 characters: two lines with an empty line between them
GapText == Raw(<< 3000, 0, 2999 >>)

\* 4101 characters: one line and the newline that ends it
EndingNewlineText == Raw(<< 4100, 0 >>)

Texts ==
    { ShortText, EdgeText, OneLineText, BlankText, ThreeLineText,
      Lines9000, TwoLines9000, OneLine9000, Sparse9000, Overlap200Text, LongLineText,
      GapText, EndingNewlineText }

PageNo == << "0", "1", "2" >>

\* An uploaded file: whether the parser can read it, and its pages.
PdfFiles ==
    { [malformed |-> TRUE, pages |-> << >>],
      [malformed |-> FALSE, pages |-> << >>],
      [malformed |-> FALSE, pages |-> << ShortText >>],
      [malformed |-> FALSE, pages |-> << ThreeLineText >>],
      [malformed |-> FALSE, pages |-> << ShortText, OneLineText >>] }

\* PyPDFLoader(path).load() on a readable file: one Document per page, in
\* page order, with the page number in its metadata.
PdfPages(file) ==
    [i \in 1..Len(file.pages) |->
        Document(file.pages[i], { << "source", "tmp_file_path" >>, << "page", PageNo[i] >> })]

\* A website address: whether validators.url accepts it, and the text the
\* page holds.
WebUrls ==
    { [valid |-> TRUE, content |-> ShortText],
      [valid |-> TRUE, content |-> Lines9000],
      [valid |-> FALSE, content |-> ShortText] }

HTTPS == << "h", "t", "t", "p", "s", ":", "/", "/" >>

YOUTUBE_COM == << "y", "o", "u", "t", "u", "b", "e", ".", "c", "o", "m", "/" >>

EMBED == << "e", "m", "b", "e", "d", "/" >>

ABC123 == << "A", "B", "C", "1", "2", "3" >>

XYZ789 == << "X", "Y", "Z", "7", "8", "9" >>

UrlHosts ==
    { YOUTU_BE, YOUTUBE_COM \o WATCH_V, YOUTUBE_COM \o EMBED, YOUTU_BE \o WATCH_V }

UrlIds == { ABC123, XYZ789, << >> }

UrlTails ==
    { << >>,
      << "?", "t", "=", "5" >>,
      << "&", "l", "i", "s", "t", "=", "P", "L" >>,
      << "?", "t", "=", "5", "&", "a", "=", "1" >>,
      << "&", "a", "=", "1", "?", "b", "=", "2" >> }

YoutubeUrls == { HTTPS \o h \o i \o t : h \in UrlHosts, i \in UrlIds, t \in UrlTails }

\* https://youtu.be/ABC123?t=5
ShortUrlExample == HTTPS \o YOUTU_BE \o ABC123 \o << "?", "t", "=", "5" >>

\* https://youtube.com/watch?v=XYZ789&list=PL
WatchUrlExample ==
    HTTPS \o YOUTUBE_COM \o WATCH_V \o XYZ789 \o << "&", "l", "i", "s", "t", "=", "P", "L" >>

\* What ytt_api.fetch returns: the snippets' text and the transcript's fields.
Transcripts ==
    { [text |-> ShortText, language |-> "English", language_code |-> "en",
       is_generated |-> "False"],
      [text |-> OneLineText, language |-> "Hindi (auto-generated)", language_code |-> "hi",
       is_generated |-> "True"] }

\* What YoutubeLoader.from_youtube_url(url, add_video_info=True).load() may
\* return: no document, or documents whose metadata is the loader's own.
FallbackResults ==
    { << >>,
      << Document(ShortText, { << "source", "video_id" >>, << "title", "video title" >> }) >>,
      << Document(ShortText, { << "source", "video_id" >> }),
         Document(OneLineText, { << "source", "video_id" >> }) >> }

\* The document lists summarize_documents is applied to.
DocLists ==
    { << Document(t, { }) >> : t \in Texts }
    \cup { << Document(ShortText, { }), Document(EdgeText, { }) >>,
           << Document(Lines9000, { }), Document(ShortText, { }) >>,
           << Document(ShortText, { }), Document(ThreeLineText, { }), Document(EdgeText, { }) >> }

\* ------------------------------------------------------------------------
\* The completion service
\* ------------------------------------------------------------------------

\* A completion that echoes its input: "summary:" + the texts of the input
\* documents, in order.
Echo(docs) ==
    [kind |-> "summary", segs |-> << >>, of |-> [i \in 1..Len(docs) |-> docs[i].page_content]]

\* The texts chain.invoke may return for an input: the echo, or nothing.
Completions(docs) == { Echo(docs), EmptyText }

\* One entry of the log of completion calls.
Call(docs, ok, out) == [input |-> docs, ok |-> ok, output |-> out]

\* The client's requests for one chain.invoke: how many were sent, and how
\* the last one ended ("none" while it is not known or it succeeded).
Request(sent, failure) == [sent |-> sent, failure |-> failure]

NoRequest == Request(0, "none")

\* How a request that fails can fail: a failure the client retries (no
\* connection, a timeout, too many requests, a server error), or one it
\* raises at once (a rejected key, a bad request).
Failures == { "transient", "permanent" }

\* The client sends the request again after a transient failure while it
\* has retries left (max_retries of line 835).
CanRetry(model, req) == req.sent < model.max_retries

\* bool(summary) for a returned text
TruthyText(opt) == opt # None /\ opt[1] # EmptyText

\* ------------------------------------------------------------------------
\* The figures of the Analytics tab (lines 1267-1297), on a text given as
\* its characters
\* ------------------------------------------------------------------------

\* The characters summaries are made of here: a letter, a full stop, a blank
\* and a newline.
Alphabet == { "a", ".", " ", "\n" }

\* str.isspace for one character
IsSpace(c) == c \in { " ", "\n", "\t" }

\* How many characters at the front of s are not whitespace.
RECURSIVE WordLen(_)
WordLen(s) ==
    IF s = << >> \/ IsSpace(Head(s)) THEN 0 ELSE 1 + WordLen(Tail(s))

\* s.split(" "): cut at every single blank, empty pieces kept.
RECURSIVE split_on_blank(_)
split_on_blank(s) ==
    IF \A i \in 1..Len(s) : s[i] # " " THEN << s >>
    ELSE LET i == CHOOSE j \in 1..Len(s) : s[j] = " " /\ \A k \in 1..(j - 1) : s[k] # " "
         IN << SubSeq(s, 1, i - 1) >> \o split_on_blank(SubSeq(s, i + 1, Len(s)))

\* s.split(): the words between runs of whitespace; no empty word.
RECURSIVE split(_)
split(s) ==
    IF s = << >> THEN << >>
    ELSE IF IsSpace(Head(s)) THEN split(Tail(s))
    ELSE LET n == WordLen(s)
         IN << SubSeq(s, 1, n) >> \o split(SubSeq(s, n + 1, Len(s)))

\* s.split("\n"): the lines, empty ones kept.
RECURSIVE split_lines(_)
split_lines(s) ==
    IF \A i \in 1..Len(s) : s[i] # "\n" THEN << s >>
    ELSE LET i == CHOOSE j \in 1..Len(s) : s[j] = "\n" /\ \A k \in 1..(j - 1) : s[k] # "\n"
         IN << SubSeq(s, 1, i - 1) >> \o split_lines(SubSeq(s, i + 1, Len(s)))

\* s.count(c)
count(s, c) == Cardinality({ i \in 1..Len(s) : s[i] = c })

\* bool(p.strip())
NotBlank(p) == \E i \in 1..Len(p) : ~IsSpace(p[i])

\* A reading time that rounds the quotient up.
reading_time_rounded_up(word_count) ==
    IF (word_count + 199) \div 200 > 1 THEN (word_count + 199) \div 200 ELSE 1

\* Line 1269: max(1, word_count // 200)
reading_time(word_count) == IF word_count \div 200 > 1 THEN word_count \div 200 ELSE 1

\* Lines 1267-1269 and 1296-1297
Analytics(s) ==
    LET word_count == Len(split(s))
        lines == split_lines(s)
    IN [word_count |-> word_count,
        char_count |-> Len(s),
        reading_time |-> reading_time(word_count),
        sentences |-> count(s, ".") + count(s, "!") + count(s, "?"),
        paragraphs |-> Cardinality({ i \in 1..Len(lines) : NotBlank(lines[i]) })]

\* ------------------------------------------------------------------------
\* State
\* ------------------------------------------------------------------------

VARIABLES
    \* st.session_state
    summary_result, documents, content_loaded, input_type, selected_method,
    selected_model,
    \* whether youtube_transcript_api could be imported
    YOUTUBE_AVAILABLE,
    \* st.secrets, os.environ["GROQ_API_KEY"], the key read from them, and the
    \* keys st.session_state holds
    secrets, environ, groq_api_key, session_keys,
    \* the files that exist in the temporary directory, and how many were made
    tmp_files, tmp_count,
    \* where the running script is, which function it is in, and which button
    \* handler called it
    pc, fn, handler,
    \* the arguments of the running function
    uploaded_file, website_url, youtube_url, sum_documents, llm,
    \* its locals
    tmp_file_path, video_id, split_called, split_docs, summaries,
    \* the completion calls it made and the exceptions its collaborators raised
    calls, errors,
    \* its return value, whether an exception left it, and the messages shown
    ret, propagated, msgs,
    \* the client's requests for the completion call in progress (or, once
    \* the function returned, for its last one)
    request,
    \* the figures the Analytics tab showed on the last script run
    analytics

session == << summary_result, documents, content_loaded, input_type, selected_method,
              selected_model >>

args == << uploaded_file, website_url, youtube_url, sum_documents, llm >>

locals == << tmp_file_path, video_id, split_called, split_docs, summaries >>

outcome == << ret, propagated, msgs >>

config == << secrets, environ, groq_api_key, session_keys >>

vars == << session, YOUTUBE_AVAILABLE, config, analytics, request, tmp_files, tmp_count, pc,
           fn, handler,
           args, locals,
           calls, errors, outcome >>

\* Values the arguments hold while no function uses them.
NoFile == [malformed |-> FALSE, pages |-> << >>]

NoUrl == [valid |-> FALSE, content |-> EmptyText]

\* The keys lines 814-825 put into st.session_state.
SessionKeys ==
    { "summary_result", "documents", "content_loaded", "input_type", "selected_method",
      "selected_model" }

\* The keys a deployment may hold, in st.secrets and in the environment.
SECRET_KEY == "gsk_secret"

ENV_KEY == "gsk_env"

\* Line 69, st.secrets: the store cannot be read (there is no secrets file,
\* on which the library's lookup raises instead of returning the default),
\* or it can be read and has no GROQ_API_KEY, an empty one, or a key.
SecretStores ==
    { [readable |-> FALSE, key |-> None],
      [readable |-> TRUE, key |-> None],
      [readable |-> TRUE, key |-> Some("")],
      [readable |-> TRUE, key |-> Some(SECRET_KEY)] }

\* Line 69, os.environ: GROQ_API_KEY is unset, empty, or a key.
Environs == { None, Some(""), Some(ENV_KEY) }

\* Line 69: os.getenv("GROQ_API_KEY", "").
getenv(env) == IF env = None THEN "" ELSE env[1]

\* Line 69: st.secrets.get("GROQ_API_KEY", default) on a store that can be
\* read.
secrets_get(store, default) == IF store.key = None THEN default ELSE store.key[1]

\* Lines 814-825: the session state of a fresh session.
InitSession ==
    /\ summary_result = EmptyText
    /\ documents = None
    /\ content_loaded = FALSE
    /\ input_type = None
    /\ selected_method = "PDF Document"
    /\ selected_model = "Llama31_8B"

\* Lines 69-76 and 814-825 have run: the key was found and is in the
\* environment, and the session state is set up.
Started ==
    /\ secrets = [readable |-> TRUE, key |-> Some(SECRET_KEY)]
    /\ environ = Some(SECRET_KEY)
    /\ groq_api_key = Some(SECRET_KEY)
    /\ session_keys = SessionKeys

InitRun ==
    /\ tmp_files = { }
    /\ tmp_count = 0
    /\ tmp_file_path = None
    /\ video_id = None
    /\ split_called = FALSE
    /\ split_docs = << >>
    /\ summaries = << >>
    /\ calls = << >>
    /\ errors = << >>
    /\ ret = None
    /\ propagated = FALSE
    /\ msgs = << >>
    /\ request = NoRequest
    /\ analytics = None

\* ------------------------------------------------------------------------
\* load_pdf_documents (lines 846-860)
\* ------------------------------------------------------------------------

\* Lines 849-851: write the upload to a NamedTemporaryFile(delete=False).
PdfEnter ==
    /\ pc = "pdf_enter"
    /\ tmp_count' = tmp_count + 1
    /\ tmp_files' = tmp_files \cup { tmp_count + 1 }
    /\ tmp_file_path' = Some(tmp_count + 1)
    /\ pc' = "pdf_load"
    /\ UNCHANGED << session, YOUTUBE_AVAILABLE, config, analytics, request, fn, handler, args,
                    video_id, split_called, split_docs, summaries, calls, errors, outcome >>

\* What an exception raised at `site` inside load_pdf_documents leads to.
pdf_raise(site, e) ==
    IF site \in pdf_try
    THEN [propagated |-> FALSE, msgs |-> << Msg("Error loading PDF", << e >>) >>]
    ELSE [propagated |-> TRUE, msgs |-> << >>]

\* The files left once loader.load() has returned: line 856, os.unlink.
pdf_unlink(files, path) == files \ { path }

\* Lines 853-860: parse the temporary file; on success unlink it and return
\* the pages, on an exception report it and return None.
PdfLoad ==
    /\ pc = "pdf_load"
    /\ \E e \in ErrMsgs :
         IF uploaded_file.malformed
         THEN LET r == pdf_raise(854, e)
              IN /\ errors' = Append(errors, Err(854, e))
                 /\ tmp_files' = tmp_files
                 /\ ret' = None
                 /\ propagated' = r.propagated
                 /\ msgs' = r.msgs
         ELSE /\ errors' = errors
              /\ tmp_files' = pdf_unlink(tmp_files, tmp_file_path[1])
              /\ ret' = Some(PdfPages(uploaded_file))
              /\ propagated' = FALSE
              /\ msgs' = << >>
    /\ pc' = "ret"
    /\ UNCHANGED << session, YOUTUBE_AVAILABLE, config, analytics, request, tmp_count, fn,
                    handler, args, locals, calls >>

\* ------------------------------------------------------------------------
\* load_url_documents (lines 862-870)
\* ------------------------------------------------------------------------

url_raise(site, e) ==
    IF site \in url_try
    THEN [propagated |-> FALSE, msgs |-> << Msg("Error loading URL", << e >>) >>]
    ELSE [propagated |-> TRUE, msgs |-> << >>]

\* What UnstructuredURLLoader(urls=[url]).load() may return: the page as one
\* Document, or no document when the page could not be fetched or converted.
UrlResults(u) == { << Document(u.content, { << "source", "url" >> }) >>, << >> }

UrlLoad ==
    /\ pc = "url_enter"
    /\ \/ \E e \in ErrMsgs :
            LET r == url_raise(866, e)
            IN /\ errors' = Append(errors, Err(866, e))
               /\ ret' = None
               /\ propagated' = r.propagated
               /\ msgs' = r.msgs
       \/ \E docs \in UrlResults(website_url) :
            /\ errors' = errors
            /\ ret' = Some(docs)
            /\ propagated' = FALSE
            /\ msgs' = << >>
    /\ pc' = "ret"
    /\ UNCHANGED << session, YOUTUBE_AVAILABLE, config, analytics, request, tmp_files,
                    tmp_count, fn, handler, args, locals, calls >>

\* ------------------------------------------------------------------------
\* load_youtube_documents (lines 872-933)
\* ------------------------------------------------------------------------

\* The transcript Document without its is_generated entry.
TranscriptDocumentNoFlag(t) ==
    << Document(t.text,
                { << "source", "youtube_url" >>, << "video_id", "video_id" >>,
                  << "language", t.language >>, << "language_code", t.language_code >> }) >>

\* Lines 894-904: the Document built from a fetched transcript.
TranscriptDocument(t) ==
    << Document(t.text,
                { << "source", "youtube_url" >>, << "video_id", "video_id" >>,
                  << "language", t.language >>, << "language_code", t.language_code >>,
                  << "is_generated", t.is_generated >> }) >>

\* The status box with the fallback's message in both places.
yt_both_failed_fallback_only(e, fallback_error) ==
    Msg("Could not fetch YouTube transcript",
        << Trunc(fallback_error, 100), Trunc(fallback_error, 100) >>)

\* Lines 915-928: the status box shown when both strategies failed.
yt_both_failed(e, fallback_error) ==
    Msg("Could not fetch YouTube transcript", << Trunc(e, 100), Trunc(fallback_error, 100) >>)

\* What an exception raised at `site` inside load_youtube_documents leads to:
\* the innermost try statement around the site decides.
yt_raise(site, e, first) ==
    IF site \in yt_primary_try
    THEN [next |-> "yt_fallback", propagated |-> FALSE, msgs |-> << >>]
    ELSE IF site \in yt_fallback_try
    THEN [next |-> "ret", propagated |-> FALSE, msgs |-> << yt_both_failed(first, e) >>]
    ELSE IF site \in yt_try
    THEN [next |-> "ret", propagated |-> FALSE,
          msgs |-> << Msg("Error loading YouTube video", << e >>) >>]
    ELSE [next |-> "ret", propagated |-> TRUE, msgs |-> << >>]

\* A loader without the test of line 880: it goes on to the fetch whatever
\* extract_video_id returned.
YtEnterNoIdCheck ==
    /\ pc = "yt_enter"
    /\ IF ~YOUTUBE_AVAILABLE
       THEN /\ msgs' = << Msg("YouTube transcript functionality not available", << >>) >>
            /\ video_id' = video_id
            /\ pc' = "ret"
       ELSE /\ video_id' = extract_video_id(youtube_url)
            /\ msgs' = << >>
            /\ pc' = "yt_fetch"
    /\ ret' = None
    /\ UNCHANGED << session, YOUTUBE_AVAILABLE, config, analytics, request, tmp_files,
                    tmp_count, fn, handler, args, tmp_file_path, split_called, split_docs,
                    summaries, calls, errors, propagated >>

\* Lines 874-885: the availability check and the identifier extraction.
YtEnter ==
    /\ pc = "yt_enter"
    /\ IF ~YOUTUBE_AVAILABLE
       THEN /\ msgs' = << Msg("YouTube transcript functionality not available", << >>) >>
            /\ video_id' = video_id
            /\ pc' = "ret"
       ELSE /\ video_id' = extract_video_id(youtube_url)
            /\ IF ~Truthy(video_id')
               THEN /\ msgs' = << Msg("Invalid YouTube URL format", << >>) >>
                    /\ pc' = "ret"
               ELSE /\ msgs' = << >>
                    /\ pc' = "yt_fetch"
    /\ ret' = None
    /\ UNCHANGED << session, YOUTUBE_AVAILABLE, config, analytics, request, tmp_files,
                    tmp_count, fn, handler, args, tmp_file_path, split_called, split_docs,
                    summaries, calls, errors, propagated >>

\* Lines 887-906: the primary strategy, ytt_api.fetch(video_id).
YtFetch ==
    /\ pc = "yt_fetch"
    /\ \/ \E t \in Transcripts :
            /\ ret' = Some(TranscriptDocument(t))
            /\ errors' = errors
            /\ propagated' = FALSE
            /\ msgs' = << >>
            /\ pc' = "ret"
       \/ \E e \in ErrMsgs :
            LET r == yt_raise(889, e, e)
            IN /\ ret' = None
               /\ errors' = Append(errors, Err(889, e))
               /\ propagated' = r.propagated
               /\ msgs' = r.msgs
               /\ pc' = r.next
    /\ UNCHANGED << session, YOUTUBE_AVAILABLE, config, analytics, request, tmp_files,
                    tmp_count, fn, handler, args, locals, calls >>

\* Lines 907-929: the fallback strategy, YoutubeLoader.
YtFallback ==
    /\ pc = "yt_fallback"
    /\ \/ \E docs \in FallbackResults :
            /\ ret' = Some(docs)
            /\ errors' = errors
            /\ propagated' = FALSE
            /\ msgs' = << >>
       \/ \E fallback_error \in ErrMsgs :
            LET r == yt_raise(911, fallback_error, errors[1].e)
            IN /\ ret' = None
               /\ errors' = Append(errors, Err(911, fallback_error))
               /\ propagated' = r.propagated
               /\ msgs' = r.msgs
    /\ pc' = "ret"
    /\ UNCHANGED << session, YOUTUBE_AVAILABLE, config, analytics, request, tmp_files,
                    tmp_count, fn, handler, args, locals, calls >>

\* ------------------------------------------------------------------------
\* summarize_documents (lines 935-966)
\* ------------------------------------------------------------------------

sum_raise(site, e) ==
    IF site \in sum_try
    THEN [propagated |-> FALSE, msgs |-> << Msg("Error during summarization", << e >>) >>]
    ELSE [propagated |-> TRUE, msgs |-> << >>]

\* The test of line 951 without its count of the documents.
NeedsSplitAnyCount(docs) == Len(docs) >= 1 /\ TextLen(docs[1].page_content) > 4000

\* Line 951: the test that sends a document to the splitter.
NeedsSplit(docs) == Len(docs) = 1 /\ TextLen(docs[1].page_content) > 4000

\* Lines 938-953: build the chain and the splitter, and choose the path.
SumEnter ==
    /\ pc = "sum_enter"
    /\ IF NeedsSplit(sum_documents)
       THEN /\ split_called' = TRUE
            /\ split_docs' = split_documents(sum_documents)
            /\ pc' = IF Len(split_docs') > 1 THEN "sum_map" ELSE "sum_single"
       ELSE /\ split_called' = FALSE
            /\ split_docs' = << >>
            /\ pc' = "sum_single"
    /\ summaries' = << >>
    /\ UNCHANGED << session, YOUTUBE_AVAILABLE, config, analytics, request, tmp_files,
                    tmp_count, fn, handler, args, tmp_file_path, video_id, calls, errors,
                    outcome >>

\* How the request that ends a chain.invoke in an exception can have failed:
\* permanently, or transiently with no retry left.
LastFailures(model, req) ==
    { f \in Failures : f = "transient" => ~CanRetry(model, req) }

\* Lines 956, 958, 961, inside chain.invoke: a request fails transiently and
\* the client, having retries left, sends it again.
SumRetry ==
    /\ pc \in { "sum_map", "sum_reduce", "sum_single" }
    /\ CanRetry(llm[1], request)
    /\ request' = Request(request.sent + 1, "transient")
    /\ UNCHANGED << session, YOUTUBE_AVAILABLE, config, analytics, tmp_files, tmp_count, pc, fn,
                    handler, args, locals, calls, errors, outcome >>

\* The loop of line 955 run over the chunks back to front.
NextChunkBackwards(done) == Len(split_docs) - done

\* The chunk the loop of line 955 handles next: chunks are taken front to back,
\* one per summary already made.
NextChunk(done) == done + 1

\* Lines 955-957: one pass of the loop, chain.invoke on the next chunk.
SumMap ==
    /\ pc = "sum_map"
    /\ LET doc == split_docs[NextChunk(Len(summaries))]
       IN \/ \E out \in Completions(<< doc >>) :
               /\ calls' = Append(calls, Call(<< doc >>, TRUE, out))
               /\ summaries' = Append(summaries, Document(out, { }))
               /\ pc' = IF Len(summaries') = Len(split_docs) THEN "sum_reduce" ELSE "sum_map"
               /\ request' = NoRequest
               /\ UNCHANGED << errors, outcome >>
          \/ \E e \in ErrMsgs : \E failure \in LastFailures(llm[1], request) :
               LET r == sum_raise(956, e)
               IN /\ calls' = Append(calls, Call(<< doc >>, FALSE, EmptyText))
                  /\ request' = Request(request.sent + 1, failure)
                  /\ errors' = Append(errors, Err(956, e))
                  /\ ret' = None
                  /\ propagated' = r.propagated
                  /\ msgs' = r.msgs
                  /\ pc' = "ret"
                  /\ UNCHANGED summaries
    /\ UNCHANGED << session, YOUTUBE_AVAILABLE, config, analytics, tmp_files, tmp_count, fn,
                    handler, args, tmp_file_path, video_id, split_called, split_docs >>

\* The intermediate summaries in reverse order.
ReduceInputReversed(sums) == [i \in 1..Len(sums) |-> sums[Len(sums) + 1 - i]]

\* What the reduce call of line 958 is given.
ReduceInput(sums) == sums

\* One chain.invoke whose output the function returns.
FinalCall(input, site) ==
    /\ \/ \E out \in Completions(input) :
            /\ calls' = Append(calls, Call(input, TRUE, out))
            /\ ret' = Some(out)
            /\ request' = Request(request.sent + 1, "none")
            /\ UNCHANGED << errors, propagated, msgs >>
       \/ \E e \in ErrMsgs : \E failure \in LastFailures(llm[1], request) :
            LET r == sum_raise(site, e)
            IN /\ calls' = Append(calls, Call(input, FALSE, EmptyText))
               /\ request' = Request(request.sent + 1, failure)
               /\ errors' = Append(errors, Err(site, e))
               /\ ret' = None
               /\ propagated' = r.propagated
               /\ msgs' = r.msgs
    /\ pc' = "ret"
    /\ UNCHANGED << session, YOUTUBE_AVAILABLE, config, analytics, tmp_files, tmp_count, fn,
                    handler, args, locals >>

\* Lines 958-959: the reduce call on the intermediate summaries.
SumReduce == pc = "sum_reduce" /\ FinalCall(ReduceInput(summaries), 958)

\* The single call given what the splitter returned, when it was applied.
SingleInputChunks == IF split_called THEN split_docs ELSE sum_documents

\* What the single call of line 961 is given: the argument of the function.
SingleInput == sum_documents

\* Lines 961-962: the single call on the documents as given.
SumSingle == pc = "sum_single" /\ FinalCall(SingleInput, 961)

\* ------------------------------------------------------------------------
\* The functions on their own: any one of them, applied to any input
\* ------------------------------------------------------------------------

NoArgs ==
    /\ uploaded_file = NoFile
    /\ website_url = NoUrl
    /\ youtube_url = << >>
    /\ sum_documents = << >>
    /\ llm = None

InitFn ==
    /\ InitSession
    /\ InitRun
    /\ Started
    /\ YOUTUBE_AVAILABLE \in BOOLEAN
    /\ handler = "none"
    /\ \/ /\ fn = "load_pdf_documents"
          /\ pc = "pdf_enter"
          /\ uploaded_file \in PdfFiles
          /\ website_url = NoUrl /\ youtube_url = << >> /\ sum_documents = << >>
          /\ llm = None
       \/ /\ fn = "load_url_documents"
          /\ pc = "url_enter"
          /\ website_url \in WebUrls
          /\ uploaded_file = NoFile /\ youtube_url = << >> /\ sum_documents = << >>
          /\ llm = None
       \/ /\ fn = "load_youtube_documents"
          /\ pc = "yt_enter"
          /\ youtube_url \in YoutubeUrls
          /\ uploaded_file = NoFile /\ website_url = NoUrl /\ sum_documents = << >>
          /\ llm = None
       \/ /\ fn = "summarize_documents"
          /\ pc = "sum_enter"
          /\ sum_documents \in DocLists
          /\ \E k \in ModelKeys : llm = Some(get_llm(k))
          /\ uploaded_file = NoFile /\ website_url = NoUrl /\ youtube_url = << >>

NextFn ==
    \/ PdfEnter
    \/ PdfLoad
    \/ UrlLoad
    \/ YtEnter
    \/ YtFetch
    \/ YtFallback
    \/ SumEnter
    \/ SumMap
    \/ SumReduce
    \/ SumRetry
    \/ SumSingle

SpecFn == InitFn /\ [][NextFn]_vars

\* Weak fairness of SumEnter, WF_vars(SumEnter), with ENABLED SumEnter
\* written out: the action is enabled exactly when control is at the setup
\* of summarize_documents.
SumEnterFair == []<>(pc # "sum_enter") \/ []<><<SumEnter>>_vars

\* The functions on their own when summarize_documents keeps running: its
\* own statements are executed one after the other (lines 938-953), and
\* every chain.invoke it starts returns or raises (lines 956, 958, 961).
\* Nothing in the code makes a call return: the client is built with
\* timeout=None (line 834).
SpecFnLive ==
    /\ InitFn
    /\ [][NextFn]_vars
    /\ SumEnterFair
    /\ WF_vars(SumMap)
    /\ WF_vars(SumReduce)
    /\ WF_vars(SumSingle)

\* ------------------------------------------------------------------------
\* The page: one script run per user action
\* ------------------------------------------------------------------------

\* The state a handler leaves behind for the next script run.
RunReset ==
    /\ pc' = "idle"
    /\ fn' = "none"
    /\ handler' = "none"
    /\ uploaded_file' = NoFile
    /\ website_url' = NoUrl
    /\ youtube_url' = << >>
    /\ sum_documents' = << >>
    /\ llm' = None
    /\ tmp_file_path' = None
    /\ video_id' = None
    /\ split_called' = FALSE
    /\ split_docs' = << >>
    /\ summaries' = << >>
    /\ calls' = << >>
    /\ errors' = << >>
    /\ ret' = None
    /\ propagated' = FALSE
    /\ request' = NoRequest

\* A reset that clears the documents and the summary but not the flag.
reset_content_state_keep_flag ==
    /\ content_loaded' = content_loaded
    /\ documents' = None
    /\ summary_result' = EmptyText

\* A reset that clears the flag and the documents but not the summary.
reset_content_state_keep_summary ==
    /\ content_loaded' = FALSE
    /\ documents' = None
    /\ summary_result' = summary_result

\* Lines 969-972
reset_content_state ==
    /\ content_loaded' = FALSE
    /\ documents' = None
    /\ summary_result' = EmptyText

\* A method card that resets the content only when the method changes.
SelectMethodIfChanged(m) ==
    /\ pc = "idle"
    /\ selected_method' = m
    /\ IF m = selected_method
       THEN UNCHANGED << content_loaded, documents, summary_result >>
       ELSE reset_content_state
    /\ msgs' = << >>
    /\ UNCHANGED << input_type, selected_model, YOUTUBE_AVAILABLE, config, analytics, request,
                    tmp_files, tmp_count, pc, fn, handler, args, locals, calls, errors, ret,
                    propagated >>

\* Lines 992-995, 1012-1015, 1031-1034: a method card is clicked.
SelectMethod(m) ==
    /\ pc = "idle"
    /\ selected_method' = m
    /\ reset_content_state
    /\ msgs' = << >>
    /\ UNCHANGED << input_type, selected_model, YOUTUBE_AVAILABLE, config, analytics, request,
                    tmp_files, tmp_count, pc, fn, handler, args, locals, calls, errors, ret,
                    propagated >>

\* A model button that resets the content as the method cards do.
SelectModelAndReset(k) ==
    /\ pc = "idle"
    /\ selected_model' = k
    /\ reset_content_state
    /\ msgs' = << >>
    /\ UNCHANGED << input_type, selected_method, YOUTUBE_AVAILABLE, config, analytics, request,
                    tmp_files, tmp_count, pc, fn, handler, args, locals, calls, errors, ret,
                    propagated >>

\* Lines 1356-1365, 1378-1387: a model button of the sidebar is clicked.
SelectModel(k) ==
    /\ pc = "idle"
    /\ selected_model' = k
    /\ msgs' = << >>
    /\ UNCHANGED << summary_result, documents, content_loaded, input_type, selected_method,
                    YOUTUBE_AVAILABLE, config, analytics, request, tmp_files, tmp_count, pc, fn,
                    handler, args, locals, calls, errors, ret, propagated >>

\* Lines 1057, 1070, 1082: the PDF load button is on the page.
PdfButtonShown == selected_method = "PDF Document"

\* Lines 1101, 1114, 1115, 1127: the website load button is on the page.
UrlButtonShown(u) == selected_method = "Website Article" /\ u.valid

\* Lines 1149, 1156, 1167-1169, 1181: the YouTube load button is on the page.
YoutubeButtonShown(u) ==
    /\ selected_method = "YouTube Video"
    /\ YOUTUBE_AVAILABLE
    /\ u # << >>
    /\ Truthy(extract_video_id(u))

\* Lines 1212, 1226: the Generate button is on the page.
GenerateButtonShown == content_loaded /\ Truthy(documents)

\* Lines 1247, 1333: the Create New Summary button is on the page.
NewSummaryButtonShown == summary_result # EmptyText

\* Line 1084: "Load & Process PDF" is clicked with file f uploaded.
ClickLoadPdf(f) ==
    /\ pc = "idle"
    /\ PdfButtonShown
    /\ tmp_count < MaxTmpFiles
    /\ handler' = "load_pdf"
    /\ fn' = "load_pdf_documents"
    /\ uploaded_file' = f
    /\ pc' = "pdf_enter"
    /\ msgs' = << >>
    /\ UNCHANGED << session, YOUTUBE_AVAILABLE, config, analytics, request, tmp_files,
                    tmp_count, website_url, youtube_url, sum_documents, llm, locals, calls,
                    errors, ret, propagated >>

\* Line 1129: "Load & Extract Content" is clicked with address u entered.
ClickLoadUrl(u) ==
    /\ pc = "idle"
    /\ UrlButtonShown(u)
    /\ handler' = "load_url"
    /\ fn' = "load_url_documents"
    /\ website_url' = u
    /\ pc' = "url_enter"
    /\ msgs' = << >>
    /\ UNCHANGED << session, YOUTUBE_AVAILABLE, config, analytics, request, tmp_files,
                    tmp_count, uploaded_file, youtube_url, sum_documents, llm, locals, calls,
                    errors, ret, propagated >>

\* Line 1183: "Load & Extract Transcript" is clicked with address u entered.
ClickLoadYoutube(u) ==
    /\ pc = "idle"
    /\ YoutubeButtonShown(u)
    /\ handler' = "load_youtube"
    /\ fn' = "load_youtube_documents"
    /\ youtube_url' = u
    /\ pc' = "yt_enter"
    /\ msgs' = << >>
    /\ UNCHANGED << session, YOUTUBE_AVAILABLE, config, analytics, request, tmp_files,
                    tmp_count, uploaded_file, website_url, sum_documents, llm, locals, calls,
                    errors, ret, propagated >>

\* A load handler that marks the content loaded whatever the loader returned.
StoreLoadedAlways(r, type) ==
    [documents |-> IF Truthy(r) THEN r ELSE documents, content_loaded |-> TRUE,
     input_type |-> IF Truthy(r) THEN Some(type) ELSE input_type]

\* A load handler that tests the loader's value with `is not None`.
StoreLoadedNotNone(r, type) ==
    IF r # None
    THEN [documents |-> r, content_loaded |-> TRUE, input_type |-> Some(type)]
    ELSE [documents |-> documents, content_loaded |-> content_loaded,
          input_type |-> input_type]

\* What a load handler stores for the value its loader returned (lines
\* 1085-1088, 1130-1133, 1184-1187): the documents, if there are any.
StoreLoaded(r, type) ==
    IF Truthy(r)
    THEN [documents |-> r, content_loaded |-> TRUE, input_type |-> Some(type)]
    ELSE [documents |-> documents, content_loaded |-> content_loaded,
          input_type |-> input_type]

\* The rest of a load handler, once its loader is back; an exception that
\* left the loader ends the script run.
LoadDone(h, type, good, bad) ==
    /\ pc = "ret"
    /\ handler = h
    /\ LET new == IF propagated THEN StoreLoaded(None, type) ELSE StoreLoaded(ret, type)
       IN /\ documents' = new.documents
          /\ content_loaded' = new.content_loaded
          /\ input_type' = new.input_type
    /\ msgs' = IF propagated THEN << Msg("Uncaught exception", << errors[Len(errors)].e >>) >>
               ELSE Append(msgs, Msg(IF Truthy(ret) THEN good ELSE bad, << >>))
    /\ RunReset
    /\ UNCHANGED << summary_result, selected_method, selected_model, YOUTUBE_AVAILABLE, config,
                    analytics, tmp_files, tmp_count >>

\* Lines 1085-1099
LoadPdfDone ==
    LoadDone("load_pdf", "PDF", "PDF content processed successfully!",
             "Failed to process PDF")

\* Lines 1130-1145
LoadUrlDone ==
    LoadDone("load_url", "Website", "Website content extracted successfully!",
             "Failed to extract website content")

\* Lines 1184-1200
LoadYoutubeDone ==
    LoadDone("load_youtube", "YouTube", "YouTube transcript extracted successfully!",
             "Failed to extract YouTube transcript")

\* Lines 1226-1230: "Generate AI Summary" is clicked.
ClickGenerate ==
    /\ pc = "idle"
    /\ GenerateButtonShown
    /\ handler' = "generate"
    /\ fn' = "summarize_documents"
    /\ llm' = Some(get_llm(selected_model))
    /\ sum_documents' = documents[1]
    /\ pc' = "sum_enter"
    /\ msgs' = << >>
    /\ UNCHANGED << session, YOUTUBE_AVAILABLE, config, analytics, request, tmp_files,
                    tmp_count, uploaded_file, website_url, youtube_url, locals, calls, errors,
                    ret, propagated >>

\* A handler that, given no summary, stores the first intermediate summary
\* the function made.
StoreSummaryOrPartial(r) ==
    IF TruthyText(r) THEN r[1]
    ELSE IF summaries # << >> THEN summaries[1].page_content
    ELSE summary_result

\* What the Generate handler stores for the value summarize_documents
\* returned (lines 1232-1233): the summary, if it is not empty.
StoreSummary(r) == IF TruthyText(r) THEN r[1] ELSE summary_result

\* Lines 1232-1239: the rest of the Generate handler; its own except clause
\* takes an exception that left summarize_documents.
GenerateDone ==
    /\ pc = "ret"
    /\ handler = "generate"
    /\ summary_result' = IF propagated THEN summary_result ELSE StoreSummary(ret)
    /\ msgs' = IF propagated
               THEN << Msg("AI processing error", << Trunc(errors[Len(errors)].e, 100) >>) >>
               ELSE IF TruthyText(ret) THEN << >>
               ELSE Append(msgs, Msg("Failed to generate summary", << >>))
    /\ RunReset
    /\ UNCHANGED << documents, content_loaded, input_type, selected_method, selected_model,
                    YOUTUBE_AVAILABLE, config, analytics, tmp_files, tmp_count >>

\* A "Create New Summary" that deletes selected_model as well, which lines
\* 824-825 then set to the default on the rerun.
CreateNewSummaryAllKeys ==
    /\ pc = "idle"
    /\ summary_result # EmptyText
    /\ summary_result' = EmptyText
    /\ content_loaded' = FALSE
    /\ documents' = None
    /\ input_type' = None
    /\ selected_model' = "Llama31_8B"
    /\ msgs' = << >>
    /\ UNCHANGED << selected_method, YOUTUBE_AVAILABLE, config, analytics, request, tmp_files,
                    tmp_count, pc, fn, handler, args, locals, calls, errors, ret, propagated >>

\* A "Create New Summary" whose list of keys lacks input_type.
CreateNewSummaryKeepType ==
    /\ pc = "idle"
    /\ summary_result # EmptyText
    /\ summary_result' = EmptyText
    /\ content_loaded' = FALSE
    /\ documents' = None
    /\ msgs' = << >>
    /\ UNCHANGED << input_type, selected_method, selected_model, YOUTUBE_AVAILABLE, config,
                    analytics, request, tmp_files, tmp_count, pc, fn, handler, args, locals,
                    calls, errors, ret, propagated >>

\* Lines 1333-1338 and, on the rerun, 814-821: "Create New Summary".
CreateNewSummary ==
    /\ pc = "idle"
    /\ NewSummaryButtonShown
    /\ summary_result' = EmptyText
    /\ content_loaded' = FALSE
    /\ documents' = None
    /\ input_type' = None
    /\ msgs' = << >>
    /\ UNCHANGED << selected_method, selected_model, YOUTUBE_AVAILABLE, config, analytics,
                    request, tmp_files, tmp_count, pc, fn, handler, args, locals, calls, errors,
                    ret, propagated >>

Init ==
    /\ InitSession
    /\ InitRun
    /\ NoArgs
    /\ Started
    /\ YOUTUBE_AVAILABLE \in BOOLEAN
    /\ pc = "idle"
    /\ fn = "none"
    /\ handler = "none"

\* The addresses typed into the YouTube field.
TypedYoutubeUrls ==
    { ShortUrlExample, WatchUrlExample, HTTPS \o YOUTUBE_COM \o EMBED \o ABC123 }

Next ==
    \/ \E m \in Methods : SelectMethod(m)
    \/ \E k \in ModelKeys : SelectModel(k)
    \/ \E f \in PdfFiles : ClickLoadPdf(f)
    \/ \E u \in WebUrls : ClickLoadUrl(u)
    \/ \E u \in TypedYoutubeUrls : ClickLoadYoutube(u)
    \/ ClickGenerate
    \/ CreateNewSummary
    \/ LoadPdfDone
    \/ LoadUrlDone
    \/ LoadYoutubeDone
    \/ GenerateDone
    \/ NextFn

Spec == Init /\ [][Next]_vars

\* ------------------------------------------------------------------------
\* The results section (lines 1247-1338) on summaries given character by
\* character. In this specification summary_result is the text itself, a
\* sequence of characters, so that split() and count() are computed on it;
\* the other specifications keep of a text only the lengths of its lines.
\* ------------------------------------------------------------------------

\* The summaries of at most MaxSummaryLen characters.
RECURSIVE Strings(_)
Strings(n) ==
    IF n = 0 THEN { << >> }
    ELSE LET shorter == Strings(n - 1)
         IN shorter \cup { Append(t, c) : t \in shorter, c \in Alphabet }

\* Line 1247 and the Analytics tab: shown only for a summary that is not
\* empty, and computed from st.session_state.summary_result on every run.
Results(s) == IF s = << >> THEN None ELSE Some(Analytics(s))

\* Lines 1232-1235 and the rerun: the Generate handler stores a summary that
\* is not empty, and the page is drawn again.
StoreSummaryText(s) ==
    /\ pc = "idle"
    /\ s # << >>
    /\ summary_result' = s
    /\ analytics' = Results(summary_result')
    /\ UNCHANGED << documents, content_loaded, input_type, selected_method, selected_model,
                    YOUTUBE_AVAILABLE, config, request, tmp_files, tmp_count, pc, fn, handler,
                    args, locals, calls, errors, outcome >>

\* Any other script run that leaves the summary alone (a tab is opened, the
\* copy button is pressed): the figures are computed again.
RenderResults ==
    /\ pc = "idle"
    /\ analytics' = Results(summary_result)
    /\ UNCHANGED << session, YOUTUBE_AVAILABLE, config, request, tmp_files, tmp_count, pc, fn,
                    handler, args, locals, calls, errors, outcome >>

\* Lines 1333-1338 and the rerun: "Create New Summary" on this page.
ClearSummaryText ==
    /\ pc = "idle"
    /\ summary_result # << >>
    /\ summary_result' = << >>
    /\ content_loaded' = FALSE
    /\ documents' = None
    /\ input_type' = None
    /\ analytics' = Results(summary_result')
    /\ UNCHANGED << selected_method, selected_model, YOUTUBE_AVAILABLE, config, request,
                    tmp_files, tmp_count, pc, fn, handler, args, locals, calls, errors,
                    outcome >>

\* A session with content loaded and no summary yet.
InitAnalytics ==
    /\ summary_result = << >>
    /\ documents = Some(<< Document(ShortText, { }) >>)
    /\ content_loaded = TRUE
    /\ input_type = Some("PDF")
    /\ selected_method = "PDF Document"
    /\ selected_model = "Llama31_8B"
    /\ InitRun
    /\ NoArgs
    /\ Started
    /\ YOUTUBE_AVAILABLE \in BOOLEAN
    /\ pc = "idle"
    /\ fn = "none"
    /\ handler = "none"

NextAnalytics ==
    \/ \E s \in Strings(MaxSummaryLen) : StoreSummaryText(s)
    \/ RenderResults
    \/ ClearSummaryText

SpecAnalytics == InitAnalytics /\ [][NextAnalytics]_vars

\* ------------------------------------------------------------------------
\* The reading time (lines 1267-1269) of summaries given by their number of
\* words. In this specification a summary of w words is one line of w
\* one-letter words with single blanks between them, and a summary of no
\* word is a single blank; the figures kept are the word count and the
\* reading time.
\* ------------------------------------------------------------------------

\* The summary of w words.
WordsText(w) == IF w = 0 THEN Raw(<< -1 >>) ELSE Raw(<< 2 * w - 1 >>)

\* Line 1267 on such a summary: a line of 2w - 1 characters has w words, a
\* line of blanks none.
WordsOf(t) == IF t.segs[1] < 0 THEN 0 ELSE (t.segs[1] + 1) \div 2

\* Lines 1267 and 1269
ReadingFigures(t) ==
    LET word_count == WordsOf(t)
    IN [word_count |-> word_count, reading_time |-> reading_time(word_count)]

\* Lines 1232-1235, 1247 and 1267-1269: the Generate handler stores a
\* summary of w words, and the page is drawn again with its figures.
StoreSummaryWords(w) ==
    /\ pc = "idle"
    /\ summary_result' = WordsText(w)
    /\ analytics' = Some(ReadingFigures(summary_result'))
    /\ UNCHANGED << documents, content_loaded, input_type, selected_method, selected_model,
                    YOUTUBE_AVAILABLE, config, request, tmp_files, tmp_count, pc, fn, handler,
                    args, locals, calls, errors, outcome >>

\* A session with content loaded and no summary yet.
InitReading ==
    /\ summary_result = EmptyText
    /\ documents = Some(<< Document(ShortText, { }) >>)
    /\ content_loaded = TRUE
    /\ input_type = Some("PDF")
    /\ selected_method = "PDF Document"
    /\ selected_model = "Llama31_8B"
    /\ InitRun
    /\ NoArgs
    /\ Started
    /\ YOUTUBE_AVAILABLE \in BOOLEAN
    /\ pc = "idle"
    /\ fn = "none"
    /\ handler = "none"

NextReading == \E w \in 0..MaxWords : StoreSummaryWords(w)

SpecReading == InitReading /\ [][NextReading]_vars

\* ------------------------------------------------------------------------
\* Startup (lines 65-76), followed by the page
\* ------------------------------------------------------------------------

\* Lines 69-76 and 814-825: the first run of the script. The lookup in
\* st.secrets raises when the store cannot be read, which nothing catches;
\* an empty key stops the script at line 73; otherwise the key is written to
\* the environment and the script goes on to set up the session state.
Startup ==
    /\ pc = "start"
    /\ IF ~secrets.readable
       THEN /\ groq_api_key' = None
            /\ msgs' = << Msg("Uncaught exception", << >>) >>
            /\ pc' = "halted"
            /\ UNCHANGED << environ, session_keys >>
       ELSE LET key == secrets_get(secrets, getenv(environ))
            IN /\ groq_api_key' = Some(key)
               /\ IF key = ""
                  THEN /\ msgs' = << Msg("GROQ_API_KEY is missing", << >>) >>
                       /\ pc' = "halted"
                       /\ UNCHANGED << environ, session_keys >>
                  ELSE /\ environ' = Some(key)
                       /\ session_keys' = session_keys \cup SessionKeys
                       /\ msgs' = << >>
                       /\ pc' = "idle"
    /\ UNCHANGED << session, YOUTUBE_AVAILABLE, secrets, analytics, request, tmp_files,
                    tmp_count, fn, handler, args, locals, calls, errors, ret, propagated >>

\* The process before the script has run: nothing is in st.session_state
\* (the session variables hold the values lines 814-825 will give their
\* keys, which mean nothing while session_keys lacks the key).
InitStart ==
    /\ InitSession
    /\ InitRun
    /\ NoArgs
    /\ secrets \in SecretStores
    /\ environ \in Environs
    /\ groq_api_key = None
    /\ session_keys = { }
    /\ YOUTUBE_AVAILABLE \in BOOLEAN
    /\ pc = "start"
    /\ fn = "none"
    /\ handler = "none"

NextStart ==
    \/ Startup
    \/ Next

SpecStart == InitStart /\ [][NextStart]_vars

\* ------------------------------------------------------------------------
\* Properties
\* ------------------------------------------------------------------------

\* The chunks the splitter cuts the argument of summarize_documents into.
Chunks == split_documents(sum_documents)

\* summarize_documents is past its choice of path.
InSummarize == fn = "summarize_documents" /\ pc # "sum_enter"

\* The map-reduce case: one document, longer than 4000 characters, cut into
\* more than one chunk.
MapReduceCase ==
    /\ InSummarize
    /\ Len(sum_documents) = 1
    /\ TextLen(sum_documents[1].page_content) > 4000
    /\ Len(Chunks) > 1

\* The intermediate summaries the first n completion calls returned.
Intermediate(n) == [j \in 1..n |-> Document(calls[j].output, { })]

\* C1: in the map-reduce case with n chunks the completion calls are made one
\* after the other, the i-th on the i-th chunk alone and call n + 1 on the n
\* intermediate summaries in chunk order, each only after all earlier calls
\* returned; a run in which no call raises makes exactly n + 1 calls and
\* returns the output of the last one.
C1_MapReduceCalls ==
    MapReduceCase =>
        LET n == Len(Chunks)
        IN /\ Len(calls) <= n + 1
           /\ \A i \in 1..Len(calls) :
                /\ i <= n => calls[i].input = << Chunks[i] >>
                /\ i = n + 1 => calls[i].input = Intermediate(n)
                /\ i < Len(calls) => calls[i].ok
           /\ (pc = "ret" /\ errors = << >>) =>
                /\ Len(calls) = n + 1
                /\ ret = Some(calls[n + 1].output)

C1_Witness ==
    /\ MapReduceCase
    /\ pc = "ret"
    /\ errors = << >>
    /\ Len(Chunks) = 3
    /\ Len(calls) = 4
    /\ ret # None

\* Every completion call of the run returned the echo of its input.
EchoRun ==
    /\ errors = << >>
    /\ \A i \in 1..Len(calls) : calls[i].ok /\ calls[i].output = Echo(calls[i].input)

\* summarize_documents has returned from a run on one document of 9000
\* characters against the echoing stub.
Echo9000Done ==
    /\ fn = "summarize_documents"
    /\ pc = "ret"
    /\ Len(sum_documents) = 1
    /\ TextLen(sum_documents[1].page_content) = 9000
    /\ EchoRun

\* C2 as stated: on a single document of 9000 characters the echoing stub is
\* invoked exactly 3 times and the result is the echo of the 2 intermediate
\* summaries in order.
C2_ThreeCalls ==
    Echo9000Done =>
        /\ Len(calls) = 3
        /\ ret = Some(Echo(Intermediate(2)))

\* C2, amended: on a single document of 9000 characters the echoing stub is
\* invoked n + 1 times when the splitter returns n > 1 chunks, the result
\* being the echo of the echoes of the n chunks in order, and once on the
\* document itself when the splitter returns at most one chunk.
C2_CallsFollowChunks ==
    Echo9000Done =>
        LET w == split_text(sum_documents[1].page_content)
            n == Len(w)
            meta == sum_documents[1].metadata
        IN IF n > 1
           THEN /\ Len(calls) = n + 1
                /\ ret = Some(Echo([j \in 1..n |->
                                     Document(Echo(<< Document(Raw(w[j]), meta) >>), { })]))
           ELSE /\ Len(calls) = 1
                /\ ret = Some(Echo(sum_documents))

C2_Witness ==
    /\ Echo9000Done
    /\ Len(split_text(sum_documents[1].page_content)) = 3
    /\ Len(calls) = 4

\* C3: for one document of at most 4000 characters, and for two or more
\* documents of any size, the splitter is never applied and the only
\* completion call is one call on the documents as given.
C3_SingleCall ==
    (/\ InSummarize
     /\ \/ Len(sum_documents) >= 2
        \/ Len(sum_documents) = 1 /\ TextLen(sum_documents[1].page_content) <= 4000)
    => /\ ~split_called
       /\ Len(calls) <= 1
       /\ \A i \in 1..Len(calls) : calls[i].input = sum_documents
       /\ pc = "ret" => Len(calls) = 1

C3_Witness ==
    /\ InSummarize
    /\ pc = "ret"
    /\ Len(sum_documents) >= 2
    /\ TextLen(sum_documents[1].page_content) > 4000
    /\ Len(calls) = 1
    /\ ~split_called

\* C4 as stated: once load_pdf_documents has returned, the temporary file it
\* created no longer exists.
C4_TempFileDeleted ==
    (fn = "load_pdf_documents" /\ pc = "ret") => tmp_file_path[1] \notin tmp_files

\* load_youtube_documents has extracted the identifier.
YtExtracted == fn = "load_youtube_documents" /\ pc # "yt_enter" /\ YOUTUBE_AVAILABLE

\* C5: the identifier of https://youtu.be/ABC123?t=5 is ABC123, that of
\* https://youtube.com/watch?v=XYZ789&list=PL is XYZ789, and a URL with
\* neither "youtu.be/" nor "watch?v=" in it has none, on which
\* load_youtube_documents returns None with the invalid-format message and
\* without a fetch.
C5_VideoIdExamples ==
    YtExtracted =>
        /\ youtube_url = ShortUrlExample => video_id = Some(ABC123)
        /\ youtube_url = WatchUrlExample => video_id = Some(XYZ789)
        /\ (~Contains(youtube_url, YOUTU_BE) /\ ~Contains(youtube_url, WATCH_V)) =>
              /\ video_id = None
              /\ pc = "ret"
              /\ ret = None
              /\ msgs = << Msg("Invalid YouTube URL format", << >>) >>
              /\ errors = << >>

C5_Witness ==
    /\ YtExtracted
    /\ ~Contains(youtube_url, YOUTU_BE)
    /\ ~Contains(youtube_url, WATCH_V)
    /\ pc = "ret"

\* C6 as stated: an identifier extract_video_id returns contains neither "&"
\* nor "?".
C6_IdHasNoSeparator ==
    (YtExtracted /\ video_id # None) =>
        /\ ~Contains(video_id[1], AMP)
        /\ ~Contains(video_id[1], QMARK)

\* Both transcript strategies of load_youtube_documents have failed.
BothFailed == fn = "load_youtube_documents" /\ pc = "ret" /\ Len(errors) = 2

\* The first characters of str(e), at most 100 of them.
First100(e) == [tag |-> e.tag, len |-> IF e.len > 100 THEN 100 ELSE e.len]

\* C7: when the primary fetch and the fallback both fail, the load returns
\* None and the one message shown carries the first 100 characters of the
\* primary failure's text and of the fallback failure's text.
C7_BothFailuresReported ==
    BothFailed =>
        /\ ret = None
        /\ Len(msgs) = 1
        /\ msgs[1].detail = << First100(errors[1].e), First100(errors[2].e) >>

C7_Witness ==
    /\ BothFailed
    /\ errors[1].e.len > 100
    /\ errors[2].e.len < 100

\* load_youtube_documents has returned documents: a list that is not empty,
\* which is what the caller's "if documents:" takes as a load.
YtLoaded == fn = "load_youtube_documents" /\ pc = "ret" /\ Truthy(ret)

\* The metadata has an entry for the key.
HasKey(meta, key) == \E kv \in meta : kv[1] = key

LanguageKeys == { "language", "language_code", "is_generated" }

\* C8 as stated: every successful YouTube load returns a single Document
\* whose metadata has the language, the language code and the
\* auto-generated flag.
C8_EveryLoadHasLanguage ==
    YtLoaded =>
        /\ Len(ret[1]) = 1
        /\ \A key \in LanguageKeys : HasKey(ret[1][1].metadata, key)

\* C8, amended: a load that succeeds by the primary fetch returns a single
\* Document holding the fetched transcript's text, language, language code
\* and auto-generated flag; a load that succeeds by the fallback returns
\* what the fallback loader returned, as it is.
C8_PrimaryLoadHasLanguage ==
    YtLoaded =>
        IF errors = << >>
        THEN /\ Len(ret[1]) = 1
             /\ \E t \in Transcripts :
                  /\ ret[1][1].page_content = t.text
                  /\ << "language", t.language >> \in ret[1][1].metadata
                  /\ << "language_code", t.language_code >> \in ret[1][1].metadata
                  /\ << "is_generated", t.is_generated >> \in ret[1][1].metadata
        ELSE ret[1] \in FallbackResults

C8_Witness ==
    /\ YtLoaded
    /\ errors = << >>
    /\ << "is_generated", "True" >> \in ret[1][1].metadata

\* The returned function showed a message that carries the text of the last
\* exception it caught.
FailureSurfaced ==
    \E i \in 1..Len(msgs) : \E j \in 1..Len(msgs[i].detail) :
        msgs[i].detail[j].tag = errors[Len(errors)].e.tag

\* C9 as stated: no exception of a collaborator leaves the four functions,
\* and a call in which any collaborator raised returns None with a message
\* shown.
C9_AnyFailureReturnsNone ==
    /\ ~propagated
    /\ (pc = "ret" /\ errors # << >>) =>
          /\ ret = None
          /\ FailureSurfaced

\* The call has ended in a failure of an external collaborator: the last
\* collaborator asked raised (for the YouTube loader, the fallback).
CollaboratorFailed ==
    /\ errors # << >>
    /\ fn = "load_youtube_documents" => Len(errors) = 2

\* C9, amended: no exception of the PDF parser, the URL extractor, the
\* transcript fetchers or the completion call leaves load_pdf_documents,
\* load_url_documents, load_youtube_documents or summarize_documents; the
\* function returns None and shows a message that carries the failure's
\* text, except that a failure of the primary transcript fetch alone is
\* answered by the fallback, whose documents load_youtube_documents then
\* returns with no error shown.
C9_NoExceptionEscapes ==
    /\ ~propagated
    /\ (pc = "ret" /\ CollaboratorFailed) =>
          /\ ret = None
          /\ FailureSurfaced
    /\ (pc = "ret" /\ errors # << >> /\ ~CollaboratorFailed) =>
          /\ ret # None
          /\ ret[1] \in FallbackResults
          /\ \A i \in 1..Len(msgs) : msgs[i].detail = << >>

C9_Witness ==
    /\ pc = "ret"
    /\ fn = "load_pdf_documents"
    /\ CollaboratorFailed
    /\ ret = None

LoadHandlers == { "load_pdf", "load_url", "load_youtube" }

\* C10: no step of a load that fails changes documents, content_loaded,
\* input_type or summary_result, and no step of a summarization that fails
\* or returns an empty text changes summary_result, documents or
\* content_loaded; the failed run ends with the page idle and the button that
\* started it still shown.
C10_FailureKeepsState ==
    [][ /\ handler' \in LoadHandlers =>
             UNCHANGED << documents, content_loaded, input_type, summary_result >>
        /\ (handler \in LoadHandlers /\ pc = "ret" /\ ~Truthy(ret)) =>
             /\ UNCHANGED << documents, content_loaded, input_type, summary_result >>
             /\ pc' = "idle"
             /\ UNCHANGED << selected_method, YOUTUBE_AVAILABLE >>
        /\ handler' = "generate" =>
             UNCHANGED << summary_result, documents, content_loaded, input_type >>
        /\ (handler = "generate" /\ pc = "ret" /\ ~TruthyText(ret)) =>
             /\ UNCHANGED << summary_result, documents, content_loaded, input_type >>
             /\ pc' = "idle"
             /\ GenerateButtonShown'
      ]_vars

C10_Witness ==
    /\ pc = "idle"
    /\ content_loaded
    /\ input_type = Some("PDF")
    /\ summary_result # EmptyText
    /\ msgs = << Msg("Error loading PDF", << [tag |-> "long", len |-> 250] >>),
                 Msg("Failed to process PDF", << >>) >>

\* The script stopped during startup.
Halted == pc = "halted"

\* A halted run has set up no session state and called nothing.
HaltedRunDoesNothing ==
    Halted =>
        /\ session_keys = { }
        /\ fn = "none"
        /\ handler = "none"
        /\ calls = << >>
        /\ tmp_files = { }

\* The key the stated priority yields: the secret store's, and the
\* environment's only if the store has none.
PriorityKey == IF secrets.key # None THEN secrets.key[1] ELSE getenv(environ)

\* C11 as stated: startup takes the key from the secret store and, only if
\* it is absent there, from the environment; it halts with an error exactly
\* when that key is absent or empty, and a halted run never sets up the
\* session state and never calls a loader or the completion service.
C11_KeyFromStoreElseEnvironment ==
    /\ [] HaltedRunDoesNothing
    /\ [][ pc = "start" =>
             IF PriorityKey = ""
             THEN /\ pc' = "halted"
                  /\ msgs' # << >>
             ELSE /\ pc' = "idle"
                  /\ groq_api_key' = Some(PriorityKey)
                  /\ session_keys' = SessionKeys
         ]_vars

\* summarize_documents has returned after its last completion call failed
\* transiently.
RetriesExhausted ==
    /\ fn = "summarize_documents"
    /\ pc = "ret"
    /\ request.failure = "transient"

\* C12: a completion call sends at most 3 requests (2 retries), to a client
\* set up with temperature 0 and no limit on the output length; when the
\* last of them fails transiently too, summarize_documents returns None
\* and shows the failure's full text; and the loaders ask each of their
\* collaborators once, never again after a failure.
C12_RetryBudget ==
    /\ request.sent <= 3
    /\ request.failure = "transient" /\ pc # "ret" => request.sent <= 2
    /\ fn = "summarize_documents" =>
          /\ llm[1].temperature = 0
          /\ llm[1].max_tokens = None
    /\ RetriesExhausted =>
          /\ request.sent = 3
          /\ ~calls[Len(calls)].ok
          /\ ret = None
          /\ ~propagated
          /\ msgs = << Msg("Error during summarization", << errors[Len(errors)].e >>) >>
    /\ fn # "summarize_documents" =>
          /\ request = NoRequest
          /\ \A i, j \in 1..Len(errors) : errors[i].site = errors[j].site => i = j

C12_Witness ==
    /\ RetriesExhausted
    /\ request.sent = 3
    /\ Len(calls) = 2
    /\ errors[1].e.len > 100

\* summarize_documents has applied the splitter to its one document.
SplitDone == fn = "summarize_documents" /\ split_called

\* The lines the splitter merges: those of the document that are not empty.
SplitLines == NonEmptySplits(sum_documents[1].page_content.segs)

\* The lines first..last without the blank lines strip() removes at the ends.
RECURSIVE StripRange(_, _, _)
StripRange(lines, first, last) ==
    IF first > last THEN [first |-> first, last |-> last]
    ELSE IF lines[first] < 0 THEN StripRange(lines, first + 1, last)
    ELSE IF lines[last] < 0 THEN StripRange(lines, first, last - 1)
    ELSE [first |-> first, last |-> last]

\* Where in the lines each window lies: _merge_splits followed line by line,
\* the lines it holds being those just before line i; a window is noted
\* whenever the loop emits one, and at the end for the lines left over.
RECURSIVE WindowRanges(_, _, _)
WindowRanges(lines, i, st) ==
    LET held == StripRange(lines, i - Len(st.cur), i - 1)
    IN IF i > Len(lines)
       THEN IF JoinDocs(st.cur) = << >> THEN << >> ELSE << held >>
       ELSE LET nxt == MergeStep(st, lines[i])
            IN (IF Len(nxt.docs) > Len(st.docs) THEN << held >> ELSE << >>)
                  \o WindowRanges(lines, i + 1, nxt)

Windows == WindowRanges(SplitLines, 1, [docs |-> << >>, cur |-> << >>, total |-> 0])

\* The characters of the lines a..b joined by newlines.
SpanLen(lines, a, b) == IF a > b THEN 0 ELSE SumLen(SubSeq(lines, a, b)) + (b - a)

\* How many characters of text windows k and k + 1 have in common: the lines
\* that lie in both.
OverlapLen(k) == SpanLen(SplitLines, Windows[k + 1].first, Windows[k].last)

\* The windows are the chunks the function holds.
WindowsAreChunks ==
    /\ Len(Windows) = Len(split_docs)
    /\ \A k \in 1..Len(Windows) :
          split_docs[k].page_content.segs
            = SubSeq(SplitLines, Windows[k].first, Windows[k].last)

Unsplittable(w) == Len(w.segs) = 1 /\ SegLen(w.segs[1]) > 4000

SplitInput == sum_documents[1].page_content

\* The first k windows joined by newlines, each without the lines it has in
\* common with the window before it.
RECURSIVE Rebuilt(_)
Rebuilt(k) ==
    IF k = 0 THEN << >>
    ELSE LET w == split_docs[k].page_content.segs
             common == IF k = 1 THEN 0 ELSE Windows[k - 1].last - Windows[k].first + 1
             dup == IF common > 0 THEN common ELSE 0
         IN Rebuilt(k - 1) \o SubSeq(w, dup + 1, Len(w))

\* No line of the text is longer than a window.
NoLongLine(t) == \A i \in 1..Len(t.segs) : SegLen(t.segs[i]) <= 4000

\* No line of the text is empty or made of blanks only.
NoBlankLine(t) == \A i \in 1..Len(t.segs) : t.segs[i] > 0

Tokens(s) ==
    Cardinality({ i \in 1..Len(s) : ~IsSpace(s[i]) /\ (i = 1 \/ IsSpace(s[i - 1])) })

\* C16: the figures shown are those of the summary now in session state,
\* the word count being the number of whitespace-separated words of it; a
\* run that leaves the summary alone shows the same figures again; and
\* session state holds no key for any of the figures.
C16_AnalyticsFollowSummary ==
    /\ [] (/\ analytics = Results(summary_result)
           /\ analytics # None => analytics[1].word_count = Tokens(summary_result)
           /\ session_keys = SessionKeys)
    /\ [][ summary_result' = summary_result => analytics' = Results(summary_result) ]_vars

C16_Witness ==
    /\ summary_result = << "a", " ", " ", "a" >>
    /\ analytics # None
    /\ analytics[1].word_count = 2
    /\ analytics[1].char_count = 4

\* C17: when the splitter, applied to the one document of more than 4000
\* characters, returns a single chunk (or none), the function makes one
\* completion call, on the document it was given and not on the chunk, and
\* returns that call's output.
C17_OneChunkOneCall ==
    (SplitDone /\ Len(split_docs) <= 1) =>
        /\ Len(calls) <= 1
        /\ summaries = << >>
        /\ \A i \in 1..Len(calls) : calls[i].input = sum_documents
        /\ pc = "ret" =>
              /\ Len(calls) = 1
              /\ calls[1].ok => ret = Some(calls[1].output)

C17_Witness ==
    /\ SplitDone
    /\ Len(split_docs) = 1
    /\ split_docs # sum_documents
    /\ pc = "ret"
    /\ calls[1].ok
    /\ ret = Some(Echo(sum_documents))

\* In the map-reduce case the completion call on the k-th chunk failed.
ChunkCallFailed(k) ==
    /\ MapReduceCase
    /\ k >= 1
    /\ k <= Len(Chunks)
    /\ k <= Len(calls)
    /\ ~calls[k].ok

\* C18: when the completion call on the k-th chunk fails in the map-reduce
\* case, it is the last call of the run (no later chunk is summarized and
\* no reduce call is made), summarize_documents returns None, and the
\* Generate handler leaves summary_result as it was.
C18_ChunkFailureStopsRun ==
    /\ [] (\A k \in 1..Len(calls) :
              ChunkCallFailed(k) =>
                 /\ Len(calls) = k
                 /\ Len(summaries) = k - 1
                 /\ pc = "ret"
                 /\ ret = None)
    /\ [][ (handler = "generate" /\ ChunkCallFailed(Len(calls))) =>
             summary_result' = summary_result ]_vars

C18_Witness ==
    /\ handler = "generate"
    /\ ChunkCallFailed(2)
    /\ calls[1].output # EmptyText
    /\ summaries # << >>
    /\ summary_result = EmptyText

\* The input type each load handler records for its method (lines 1088,
\* 1133, 1187).
TypeOfMethod ==
    [m \in Methods |->
        IF m = "PDF Document" THEN "PDF"
        ELSE IF m = "Website Article" THEN "Website"
        ELSE "YouTube"]

\* Line 1241: content_loaded is set and documents is None or empty.
ContentIssueBranch == content_loaded /\ ~Truthy(documents)

\* C19: whenever content_loaded is set, documents is a list that is not
\* empty and input_type is the type of the selected input method; the
\* branch of line 1241 is never taken.
C19_LoadedMeansDocuments ==
    /\ content_loaded =>
          /\ Truthy(documents)
          /\ input_type = Some(TypeOfMethod[selected_method])
    /\ ~ContentIssueBranch

C19_Witness ==
    /\ pc = "idle"
    /\ content_loaded
    /\ selected_method = "YouTube Video"
    /\ input_type = Some("YouTube")
    /\ Len(documents[1]) = 2
    /\ summary_result # EmptyText

\* Line 1247: the results section is rendered.
ResultsShown == summary_result # EmptyText

\* C20: whenever summary_result is not empty, content_loaded is set and
\* input_type is one of the three types, so the file name of line 1322 is
\* always built from a set input_type.
C20_SummaryMeansLoaded ==
    ResultsShown =>
        /\ content_loaded
        /\ input_type # None
        /\ input_type[1] \in { "PDF", "Website", "YouTube" }

C20_Witness ==
    /\ pc = "idle"
    /\ ResultsShown
    /\ content_loaded
    /\ input_type = Some("Website")
    /\ selected_model # "Llama31_8B"

\* ------------------------------------------------------------------------
\* The session state across script runs
\* ------------------------------------------------------------------------

\* The session values other than selected_model.
ContentState == << summary_result, documents, content_loaded, input_type, selected_method >>

\* C21: selected_model is always a key of GROQ_MODELS, so the lookup of
\* get_llm succeeds and the client the Generate handler builds is the one
\* of the selected model; and a step of the page that changes any other
\* session value (a method card, "Create New Summary", a load, a summary)
\* leaves selected_model as it was.
C21_SelectedModelInCatalog ==
    /\ [](selected_model \in DOMAIN GROQ_MODELS)
    /\ [](pc = "sum_enter" => llm = Some(ChatGroq(GROQ_MODELS[selected_model])))
    /\ [][ ContentState' # ContentState => selected_model' = selected_model ]_vars

C21_Witness ==
    /\ pc = "sum_enter"
    /\ selected_method = "Website Article"
    /\ selected_model = "Qwen3_32B"
    /\ llm = Some(ChatGroq("qwen/qwen3-32b"))
    /\ summary_result # EmptyText

\* summarize_documents is running or has just returned to its caller.
SummarizeInvoked == fn = "summarize_documents"

\* C22: summarize_documents runs only for the Generate handler, with
\* content_loaded set, on the documents of the session (which are not
\* empty) and with the client of the model selected when the button was
\* clicked; completion calls are made only inside it, so none exists while
\* content_loaded is not set.
C22_SummarizeOnlyWhenLoaded ==
    /\ [](SummarizeInvoked =>
            /\ handler = "generate"
            /\ content_loaded
            /\ Truthy(documents)
            /\ sum_documents = documents[1]
            /\ llm = Some(ChatGroq(GROQ_MODELS[selected_model])))
    /\ [](~content_loaded => ~SummarizeInvoked /\ calls = << >>)
    /\ [][ Len(calls') > Len(calls) => SummarizeInvoked /\ content_loaded' ]_vars

C22_Witness ==
    /\ SummarizeInvoked
    /\ Len(calls) = 2
    /\ selected_model = "GptOss120B"
    /\ input_type = Some("PDF")
    /\ tmp_count = 2

\* A loader is back in its handler with an empty list of documents.
EmptyLoad == pc = "ret" /\ handler \in LoadHandlers /\ ~propagated /\ ret = Some(<< >>)

\* The failure message of each load handler (lines 1099, 1145, 1200).
FailureMessage ==
    [h \in LoadHandlers |->
        IF h = "load_pdf" THEN "Failed to process PDF"
        ELSE IF h = "load_url" THEN "Failed to extract website content"
        ELSE "Failed to extract YouTube transcript"]

\* C23: when a loader returns an empty list of documents, its handler
\* leaves documents, content_loaded and input_type as they were and shows
\* its failure message, and nothing else, as it does for a loader that
\* returned None; the PDF and website loaders return it without any
\* exception.
C23_EmptyLoadIsFailure ==
    [][ EmptyLoad =>
          /\ UNCHANGED << documents, content_loaded, input_type, summary_result >>
          /\ msgs' = << Msg(FailureMessage[handler], << >>) >>
          /\ pc' = "idle"
          /\ handler \in { "load_pdf", "load_url" } => errors = << >>
      ]_vars

C23_Witness ==
    /\ pc = "idle"
    /\ content_loaded
    /\ input_type = Some("PDF")
    /\ Len(documents[1]) = 2
    /\ tmp_count = 2
    /\ tmp_files = { }
    /\ msgs = << Msg("Failed to process PDF", << >>) >>

\* The session values a method card leaves: the method, and the content
\* reset.
MethodSelected(m) ==
    /\ selected_method' = m
    /\ content_loaded' = FALSE
    /\ documents' = None
    /\ summary_result' = EmptyText
    /\ selected_model' = selected_model
    /\ input_type' = input_type

\* C24: a click on a method card, the card of the current method included,
\* sets selected_method to that method, content_loaded to False, documents
\* to None and summary_result to the empty text, and leaves selected_model
\* and input_type as they were; selected_method changes in no other step.
C24_SelectMethodResets ==
    [][ /\ \A m \in Methods : SelectMethod(m) => MethodSelected(m)
        /\ selected_method' # selected_method => MethodSelected(selected_method')
      ]_vars

C24_Witness ==
    /\ pc = "idle"
    /\ selected_method = "YouTube Video"
    /\ input_type = Some("PDF")
    /\ selected_model = "KimiK2"
    /\ ~content_loaded
    /\ documents = None
    /\ summary_result = EmptyText
    /\ tmp_count = 1

\* A loader is back in its handler with documents.
LoadSucceeded == pc = "ret" /\ handler \in LoadHandlers /\ ~propagated /\ Truthy(ret)

\* The input type each load handler records (lines 1088, 1133, 1187).
TypeOfHandler ==
    [h \in LoadHandlers |->
        IF h = "load_pdf" THEN "PDF" ELSE IF h = "load_url" THEN "Website" ELSE "YouTube"]

\* C25: a load that succeeds stores the documents, sets content_loaded and
\* records the input type, and leaves summary_result, selected_model and
\* selected_method as they were; a click on a model button changes
\* selected_model only. So a summary shown before either step is shown,
\* unchanged, after it.
C25_LoadAndModelKeepSummary ==
    [][ /\ LoadSucceeded =>
              /\ documents' = ret
              /\ content_loaded'
              /\ input_type' = Some(TypeOfHandler[handler])
              /\ UNCHANGED << summary_result, selected_model, selected_method >>
        /\ \A k \in ModelKeys : SelectModel(k) =>
              /\ selected_model' = k
              /\ UNCHANGED ContentState
        /\ selected_model' # selected_model => UNCHANGED ContentState
        /\ (LoadSucceeded \/ selected_model' # selected_model) /\ ResultsShown =>
              ResultsShown' /\ summary_result' = summary_result
      ]_vars

C25_Witness ==
    /\ pc = "idle"
    /\ ResultsShown
    /\ summary_result.of = << ShortText >>
    /\ content_loaded
    /\ documents[1][1].page_content = Lines9000
    /\ input_type = Some("Website")
    /\ selected_model = "Llama4Scout"
    /\ msgs = << Msg("Website content extracted successfully!", << >>) >>

\* The values lines 814-821 give the four keys "Create New Summary" deletes.
ContentReset ==
    /\ summary_result' = EmptyText
    /\ content_loaded' = FALSE
    /\ documents' = None
    /\ input_type' = None

\* C26: after a click on "Create New Summary" the next script run starts
\* with summary_result empty, content_loaded False, documents None and
\* input_type None, all six session keys present, and selected_method and
\* selected_model as they were; input_type returns to None in no other
\* step.
C26_NewSummaryResets ==
    [][ /\ CreateNewSummary =>
              /\ ContentReset
              /\ UNCHANGED << selected_method, selected_model >>
              /\ session_keys' = SessionKeys
              /\ pc' = "idle"
        /\ (input_type # None /\ input_type' = None) =>
              /\ ContentReset
              /\ UNCHANGED << selected_method, selected_model >>
      ]_vars

C26_Witness ==
    /\ pc = "idle"
    /\ NewSummaryButtonShown
    /\ content_loaded
    /\ input_type = Some("YouTube")
    /\ selected_method = "YouTube Video"
    /\ selected_model = "Llama33_70B"
    /\ Len(documents[1]) = 2

\* ------------------------------------------------------------------------
\* The order of the steps of load_youtube_documents
\* ------------------------------------------------------------------------

\* load_youtube_documents is running or has just returned.
YtRunning == fn = "load_youtube_documents"

\* A transcript strategy is being attempted: the primary fetch (line 889) or
\* the fallback loader (lines 910-911).
YtAttempting == YtRunning /\ pc \in { "yt_fetch", "yt_fallback" }

\* C27: a transcript strategy is attempted only with the identifier
\* extracted and not empty; when extract_video_id yields None or an empty
\* identifier the function returns None with neither strategy attempted;
\* the fallback is entered only from the primary fetch, with the fetch's
\* exception as the only one raised; and a fetch that succeeds returns at
\* once, without the fallback.
C27_YoutubeStepOrder ==
    /\ [](YtAttempting =>
            /\ YOUTUBE_AVAILABLE
            /\ video_id = extract_video_id(youtube_url)
            /\ Truthy(video_id))
    /\ []((YtRunning /\ pc # "yt_enter" /\ ~Truthy(extract_video_id(youtube_url))) =>
            /\ pc = "ret"
            /\ ret = None
            /\ errors = << >>)
    /\ []((YtRunning /\ pc = "yt_fallback") =>
            /\ Len(errors) = 1
            /\ errors[1].site = 889
            /\ ret = None)
    /\ [][ /\ (YtRunning /\ pc' = "yt_fetch") => pc = "yt_enter"
           /\ (YtRunning /\ pc' = "yt_fallback") => pc = "yt_fetch" /\ Len(errors') = 1
           /\ (YtRunning /\ pc = "yt_fetch" /\ errors' = errors) =>
                 /\ pc' = "ret"
                 /\ Truthy(ret')
         ]_vars

C27_Witness ==
    /\ YtRunning
    /\ pc = "ret"
    /\ video_id = Some(XYZ789)
    /\ Len(errors) = 1
    /\ errors[1].site = 889
    /\ Len(ret[1]) = 2

\* ------------------------------------------------------------------------
\* The reading time
\* ------------------------------------------------------------------------

\* The figures shown with the summary.
Shown == analytics[1]

\* C28: the reading time shown for a summary of w words is the larger of 1
\* and the quotient of w by 200, rounded down: it is at least 1 for every
\* summary shown (one of no word included), it is 1 for every w below 400,
\* and a summary of more words never has a shorter reading time.
C28_ReadingTime ==
    /\ [](analytics # None =>
            /\ Shown.word_count = WordsOf(summary_result)
            /\ Shown.reading_time >= 1
            /\ Shown.word_count < 400 => Shown.reading_time = 1
            /\ Shown.word_count >= 200 =>
                  /\ 200 * Shown.reading_time <= Shown.word_count
                  /\ Shown.word_count < 200 * (Shown.reading_time + 1))
    /\ [][ (analytics # None /\ analytics' # None
              /\ analytics[1].word_count <= analytics'[1].word_count) =>
                analytics[1].reading_time <= analytics'[1].reading_time ]_vars

C28_Witness ==
    /\ analytics # None
    /\ summary_result = WordsText(999)
    /\ Shown.word_count = 999
    /\ Shown.reading_time = 4

\* ------------------------------------------------------------------------
\* Termination of summarize_documents
\* ------------------------------------------------------------------------

\* The chunks the run works on: those the splitter returned, if it was
\* applied.
NumChunks == IF split_called THEN Len(split_docs) ELSE 0

\* summarize_documents has returned a text, or None after an exception it
\* caught.
SummarizeReturned ==
    /\ fn = "summarize_documents"
    /\ pc = "ret"
    /\ ~propagated
    /\ IF errors = << >>
       THEN ret # None /\ ret[1].kind \in { "summary", "raw" }
       ELSE ret = None /\ msgs # << >>

\* C29: when every completion call returns or raises, every run of
\* summarize_documents returns, with a text or with None after a caught
\* exception, and at no point has it made more completion calls than the
\* number of its chunks plus one.
C29_SummarizeTerminates ==
    /\ (fn = "summarize_documents") ~> SummarizeReturned
    /\ [](fn = "summarize_documents" =>
            /\ Len(calls) <= NumChunks + 1
            /\ ~propagated
            /\ pc = "ret" => SummarizeReturned)

C29_Witness ==
    /\ SummarizeReturned
    /\ NumChunks = 3
    /\ Len(calls) = 4
    /\ request.sent = 3
    /\ ret # None

====
